---- MODULE Spec2Model ----
(***************************************************************************)
(* Model of the Azkaban command line interface (src/azkaban/__main__.py):  *)
(* one invocation of `azkaban build` or `azkaban upload`, from main's      *)
(* dispatch through project resolution (_parse_project), the local build,  *)
(* the session and the create-on-missing upload loop.                      *)
(*                                                                         *)
(* Strings that the code inspects (the --project reference) are sequences  *)
(* of one-character strings; error messages are sequences of words.        *)
(* Optional values (Python's None) are sequences of length at most one.    *)
(***************************************************************************)
EXTENDS Integers, Sequences, FiniteSets, TLC

\* ------------------------------------------------------------------ bounds
MaxRefLen == 3        \* longest --project reference drawn by Init
MaxAttempts == 3      \* cap on the upload attempts of the `while True` loop
MaxLogLines == 2      \* cap on the log lines one invocation streams
MaxEmailsLen == 3     \* longest --emails string drawn for run_flow

\* ---------------------------------------------------------------- helpers
Absent == << >>
Some(x) == << x >>
Range(s) == { s[i] : i \in 1..Len(s) }

Colon == ":"
Alphabet == { "a", "b", Colon }
RefStrings == UNION { [1..n -> Alphabet] : n \in 0..MaxRefLen }
Jobs == << "j", "o", "b", "s" >>

\* Python truthiness of an optional string: None and '' are falsy.
Truthy(opt) == opt /= Absent /\ opt[1] /= << >>

\* Config().get_option('azkaban', 'project', 'jobs')
get_option(cfg, default) == IF cfg /= Absent THEN cfg[1] ELSE default

\* Index of the rightmost ':' of s (s contains one).
LastColon(s) == CHOOSE i \in 1..Len(s) :
                  s[i] = Colon /\ \A j \in (i+1)..Len(s) : s[j] /= Colon

FirstColon(s) == CHOOSE i \in 1..Len(s) :
                   s[i] = Colon /\ \A j \in 1..(i-1) : s[j] /= Colon

rsplit_leftmost(s) ==
  << SubSeq(s, 1, FirstColon(s) - 1), SubSeq(s, FirstColon(s) + 1, Len(s)) >>

\* _project.rsplit(':', 1)
rsplit(s) ==
  << SubSeq(s, 1, LastColon(s) - 1), SubSeq(s, LastColon(s) + 1, Len(s)) >>

\* ----------------------------------------------------------------- errors
NoError == [exc |-> "none", msg |-> << >>]
ImportErr == [exc |-> "ImportError", msg |-> << "No module named", "x" >>]
DefinitionErr == [exc |-> "AzkabanError", msg |-> << "No project found." >>]
GuidanceErr ==
  [exc |-> "AzkabanError",
   msg |-> << "This command requires a project configuration module which was not found.",
              "You can specify another location using the --project option." >>]
MissingErr == [exc |-> "AzkabanError", msg |-> << "Project", "doesn't exist." >>]
ValidationErr == [exc |-> "AzkabanError", msg |-> << "Installation", "failed." >>]
PermissionErr == [exc |-> "AzkabanError", msg |-> << "Permission", "denied." >>]
KeyErr == [exc |-> "KeyError", msg |-> << "jx" >>]
TransportErr == [exc |-> "HTTPError", msg |-> << "502", "Bad Gateway" >>]
Http500 == [exc |-> "HTTPError", msg |-> << "500", "Server Error" >>]
Http401 == [exc |-> "HTTPError", msg |-> << "401", "Unauthorized" >>]
CreateErr == [exc |-> "AzkabanError", msg |-> << "Project", "already exists." >>]
SessionErr == [exc |-> "AzkabanError", msg |-> << "Invalid", "endpoint." >>]
NoLogFileErr == [exc |-> "AzkabanError", msg |-> << "No log file active." >>]
BuildErr == [exc |-> "AzkabanError", msg |-> << "Path", "already exists." >>]

\* str(err).endswith("doesn't exist.")
endswith(msg, suffix) == Len(msg) >= 1 /\ msg[Len(msg)] = suffix

\* ----------------------------------------------------- project resolution
LoadOutcomes == { "ok", "ImportError", "AzkabanError" }
DeclaredNames == { << "a" >>, << "p" >> }

\* Project.load(path, name=None): the project registered as `name` in the
\* module at `path`, or the unique project of the module (whose declared
\* name is `declared`); ImportError when the module cannot be imported,
\* AzkabanError when the module defines no matching project.
Project_load(path, name, outcome, declared) ==
  [ raised  |-> IF outcome = "ok" THEN NoError
                ELSE IF outcome = "ImportError" THEN ImportErr
                ELSE DefinitionErr,
    project |-> IF outcome /= "ok" THEN Absent
                ELSE Some([ name |-> IF name /= Absent THEN name[1] ELSE declared,
                            path |-> path ]),
    call    |-> [ path |-> path, name |-> name, outcome |-> outcome ] ]

\* The reference _parse_project works on, after the `or` of its first line.
effective_reference(p, cfg) == IF Truthy(p) THEN p[1] ELSE get_option(cfg, Jobs)

parse_project_noname(p, require_project, cfg, outcome, declared) ==
  LET ref == effective_reference(p, cfg) IN
  IF Colon \in Range(ref)
    THEN LET l == Project_load(rsplit(ref)[1], Some(rsplit(ref)[2]), outcome, declared)
         IN [ raised |-> l.raised,
              name |-> IF outcome = "ok" THEN Some(rsplit(ref)[2]) ELSE Absent,
              project |-> l.project, call |-> l.call ]
    ELSE LET l == Project_load(ref, Absent, outcome, declared) IN
         IF outcome = "ok"
           THEN [ raised |-> NoError, name |-> Some(l.project[1].name),
                  project |-> l.project, call |-> l.call ]
         ELSE IF outcome = "ImportError" /\ ~require_project
           THEN [ raised |-> NoError, name |-> Absent,
                  project |-> Absent, call |-> l.call ]
         ELSE [ raised |-> l.raised, name |-> Absent,
                project |-> Absent, call |-> l.call ]

\* _parse_project(_project, require_project): (name, project), or the
\* exception that leaves the function.  `outcome` and `declared` are what
\* the file system answers to the one Project.load call it makes.
parse_project(p, require_project, cfg, outcome, declared) ==
  LET ref == effective_reference(p, cfg) IN
  IF Colon \in Range(ref)
    THEN LET l == Project_load(rsplit(ref)[1], Some(rsplit(ref)[2]), outcome, declared)
         IN [ raised |-> l.raised,
              name |-> IF outcome = "ok" THEN Some(rsplit(ref)[2]) ELSE Absent,
              project |-> l.project, call |-> l.call ]
    ELSE LET l == Project_load(ref, Absent, outcome, declared) IN
         IF outcome = "ok"
           THEN [ raised |-> NoError, name |-> Some(l.project[1].name),
                  project |-> l.project, call |-> l.call ]
         ELSE IF outcome = "ImportError" /\ ~require_project
           THEN [ raised |-> NoError, name |-> Some(ref),
                  project |-> Absent, call |-> l.call ]
         ELSE [ raised |-> l.raised, name |-> Absent,
                project |-> Absent, call |-> l.call ]

\* _get_project_name(_project): _parse_project(_project)[0]
get_project_name(p, cfg, outcome, declared) ==
  parse_project(p, FALSE, cfg, outcome, declared)

load_project_nocatch(p, cfg, outcome, declared) ==
  parse_project(p, TRUE, cfg, outcome, declared)

\* _load_project(_project): the project of _parse_project(_project, True),
\* an ImportError replaced by the AzkabanError that points at --project.
load_project(p, cfg, outcome, declared) ==
  LET r == parse_project(p, TRUE, cfg, outcome, declared) IN
  IF r.raised.exc = "ImportError" THEN [ r EXCEPT !.raised = GuidanceErr ] ELSE r

\* ------------------------------------------------------------- the remote
\* The Azkaban server as the Session methods see it: the projects it holds,
\* each with the archive that is its newest version ("none" right after
\* creation).  An upload to a project it does not hold is refused with
\* "doesn't exist."; any upload may also be refused for another reason or
\* lost in transport; an accepted upload becomes the newest version.
PreExisting == { << "a" >>, Jobs }
EmptyRemote == [ n \in {} |-> "old" ]
InitialRemotes == { EmptyRemote, [ n \in PreExisting |-> "old" ] }

UploadResponses(r, name) ==
  (IF name \in DOMAIN r THEN { NoError } ELSE { MissingErr })
    \cup { ValidationErr, PermissionErr, TransportErr }

\* Answers to create_project: accepted and created, accepted without effect,
\* refused, lost in transport.
CreateOutcomes == { "created", "accepted", "refused", "transport" }
CreateError(out) == IF out = "refused" THEN CreateErr
                    ELSE IF out = "transport" THEN TransportErr ELSE NoError

remote_upload(r, name, path) == (name :> path) @@ r
remote_create(r, name, out) ==
  IF out = "created" /\ name \notin DOMAIN r THEN (name :> "none") @@ r ELSE r

\* ------------------------------------------------- decisions of the loop
creates_always(cmd, create, e) ==
  IF cmd = "upload" THEN TRUE ELSE endswith(e.msg, "doesn't exist.")

\* The `except AzkabanError as err` clause of the two upload loops: TRUE
\* when it calls create_project, FALSE when it re-raises err.
\*   upload_project:  if _create
\*   build_project:   if _create and str(err).endswith("doesn't exist.")
creates_on(cmd, create, e) ==
  IF cmd = "upload" THEN create
  ELSE create /\ endswith(e.msg, "doesn't exist.")

after_create_break(out) ==
  IF CreateError(out) = NoError THEN "done" ELSE "failed"

after_create_swallow(out) == "upload"

\* Where control goes after session.create_project: back to the top of
\* `while True` when it returns, out of the function when it raises.
after_create(out) ==
  IF CreateError(out) = NoError THEN "upload" ELSE "failed"

\* ------------------------------------------------- dispatch of arguments
\* Keys of the dictionary docopt returns and parameter names of the command
\* functions, as sequences of characters (_forward rewrites the ones into
\* the others).
K_zip == << "Z", "I", "P" >>
K_execution == << "E", "X", "E", "C", "U", "T", "I", "O", "N" >>
K_job == << "J", "O", "B" >>
K_workflow == << "W", "O", "R", "K", "F", "L", "O", "W" >>
K_url == << "-", "-", "u", "r", "l" >>
K_alias == << "-", "-", "a", "l", "i", "a", "s" >>
K_replace == << "-", "-", "r", "e", "p", "l", "a", "c", "e" >>
K_create == << "-", "-", "c", "r", "e", "a", "t", "e" >>
K_files == << "-", "-", "f", "i", "l", "e", "s" >>
K_options == << "-", "-", "o", "p", "t", "i", "o", "n", "s" >>
K_include_properties == << "-", "-", "i", "n", "c", "l", "u", "d", "e", "-", "p", "r", "o", "p", "e", "r", "t", "i", "e", "s" >>
K_skip == << "-", "-", "s", "k", "i", "p" >>
K_kill == << "-", "-", "k", "i", "l", "l" >>
K_emails == << "-", "-", "e", "m", "a", "i", "l", "s" >>
K_email == << "-", "-", "e", "m", "a", "i", "l" >>
K_project == << "-", "-", "p", "r", "o", "j", "e", "c", "t" >>

P_zip == << "_", "z", "i", "p" >>
P_url == << "_", "u", "r", "l" >>
P_alias == << "_", "a", "l", "i", "a", "s" >>
P_replace == << "_", "r", "e", "p", "l", "a", "c", "e" >>
P_create == << "_", "c", "r", "e", "a", "t", "e" >>
P_execution == << "_", "e", "x", "e", "c", "u", "t", "i", "o", "n" >>
P_job == << "_", "j", "o", "b" >>
P_files == << "_", "f", "i", "l", "e", "s" >>
P_options == << "_", "o", "p", "t", "i", "o", "n", "s" >>
P_include_properties == << "_", "i", "n", "c", "l", "u", "d", "e", "_", "p", "r", "o", "p", "e", "r", "t", "i", "e", "s" >>
P_workflow == << "_", "w", "o", "r", "k", "f", "l", "o", "w" >>
P_skip == << "_", "s", "k", "i", "p" >>
P_kill == << "_", "k", "i", "l", "l" >>
P_emails == << "_", "e", "m", "a", "i", "l", "s" >>

Upper == << "A", "B", "C", "E", "I", "J", "K", "L", "N", "O", "P", "R", "T",
            "U", "W", "X", "Z" >>
Lower == << "a", "b", "c", "e", "i", "j", "k", "l", "n", "o", "p", "r", "t",
            "u", "w", "x", "z" >>

\* k.lower()
lower(s) == [ i \in 1..Len(s) |->
                IF \E j \in 1..Len(Upper) : Upper[j] = s[i]
                  THEN Lower[CHOOSE j \in 1..Len(Upper) : Upper[j] = s[i]]
                  ELSE s[i] ]

\* s.lstrip(c)
lstrip(s, c) ==
  IF \A i \in 1..Len(s) : s[i] = c THEN << >>
  ELSE SubSeq(s, CHOOSE i \in 1..Len(s) :
                   s[i] /= c /\ \A j \in 1..(i-1) : s[j] = c, Len(s))

\* s.replace(a, b), for single characters
replace(s, a, b) == [ i \in 1..Len(s) |-> IF s[i] = a THEN b ELSE s[i] ]

\* '_%s' % (k.lower().lstrip('-').replace('-', '_'), )
param_name(k) == << "_" >> \o replace(lstrip(lower(k), "-"), "-", "_")

\* _forward(args, names): the entries of args whose key is in names, under
\* the parameter name made from the key.
forward(d, names) ==
  [ q \in { param_name(k) : k \in DOMAIN d \cap names } |->
      d[CHOOSE k \in DOMAIN d \cap names : param_name(k) = q] ]

\* The names main forwards to each command function.
BuildNames == { K_zip, K_url, K_alias, K_replace, K_create }
LogNames == { K_execution, K_job, K_url, K_alias }
InfoNames == { K_files, K_options, K_job, K_include_properties }
RunNames == { K_workflow, K_job, K_skip, K_url, K_alias, K_kill, K_email }
UploadNames == { K_zip, K_create, K_url, K_alias }

\* The keyword parameters of each command function (its parameters after
\* the one main passes positionally).
build_project_params == { P_zip, P_url, P_alias, P_replace, P_create }
view_log_params == { P_execution, P_job, P_url, P_alias }
view_info_params == { P_files, P_options, P_job, P_include_properties }
run_flow_params == { P_workflow, P_job, P_url, P_alias, P_skip, P_kill, P_emails }
upload_project_params == { P_zip, P_url, P_alias, P_create }

\* f(x, **kw) binds when kw names exactly the remaining parameters of f;
\* otherwise the call raises TypeError before f runs.
call_binds(params, kw) == DOMAIN kw = params
TypeErr == [exc |-> "TypeError", msg |-> << "missing or unexpected", "argument" >>]

\* ------------------------------------------------------- running a flow
Comma == ","
EmailAlphabet == { "x", "y", Comma }
EmailStrings == UNION { [1..n -> EmailAlphabet] : n \in 0..MaxEmailsLen }

FirstComma(s) == CHOOSE i \in 1..Len(s) :
                   s[i] = Comma /\ \A j \in 1..(i-1) : s[j] /= Comma

\* s.split(','): the parts between the commas, in order ('' gives ['']).
RECURSIVE split(_)
split(s) ==
  IF Comma \notin Range(s) THEN << s >>
  ELSE << SubSeq(s, 1, FirstComma(s) - 1) >>
         \o split(SubSeq(s, FirstComma(s) + 1, Len(s)))

run_on_failure_swapped(kill) == IF kill THEN "finish" ELSE "cancel"

\* run_flow: on_failure='cancel' if _kill else 'finish'
run_on_failure(kill) == IF kill THEN "cancel" ELSE "finish"

\* run_flow: concurrent=not _skip
run_concurrent(skip) == ~skip

\* run_flow: emails=_emails.split(',') if _emails else None
run_emails(emails) == IF Truthy(emails) THEN Some(split(emails[1])) ELSE Absent

\* Answers to Session.run_workflow: the execution id, or an error.
RunResponses == { NoError, ValidationErr, TransportErr }

\* ---------------------------------------------------------- log retrieval
\* What one step of the log stream (Execution.logs / Execution.job_logs)
\* gives: a line, the end of the stream, or the HTTPError of the failed
\* request.
LogLine == [exc |-> "none", msg |-> << "line" >>]
LogEnd == NoError
LogResponses == { LogLine, LogEnd, Http500, Http401, TransportErr }

log_error_raw(e, execution, job) == e

\* The `except HTTPError:` clause of view_log: the error that leaves
\* view_log when iterating the stream raised e.
log_error(e, execution, job) ==
  IF e.exc = "HTTPError"
    THEN IF job /= << >>
           THEN [exc |-> "AzkabanError",
                 msg |-> << "Execution", execution, "and/or job" >> \o job
                           \o << "not found." >>]
           ELSE [exc |-> "AzkabanError",
                 msg |-> << "Execution", execution, "not found." >>]
    ELSE e

\* ------------------------------------------- the upload loop as a function
\* The calls the `while True` loop of a command makes and how it ends when
\* the remote gives the answers `answers` to its calls, in order; `at` is
\* the call the loop is about to make.
RECURSIVE upload_loop(_, _, _, _)
upload_loop(cmd, create, answers, at) ==
  IF answers = << >>
    THEN [ ops |-> << >>, outcome |-> "running", err |-> NoError ]
  ELSE
    LET a == Head(answers)
        then(next) == LET r == upload_loop(cmd, create, Tail(answers), next)
                      IN [ r EXCEPT !.ops = << at >> \o @ ]
        ended(how, e) == [ ops |-> << at >>, outcome |-> how, err |-> e ]
    IN IF at = "upload"
         THEN IF a = NoError THEN ended("done", NoError)
              ELSE IF a.exc = "AzkabanError" /\ creates_on(cmd, create, a)
                THEN then("create")
              ELSE ended("failed", a)
         ELSE IF after_create(IF a = NoError THEN "accepted" ELSE "refused") = "upload"
                THEN then("upload")
              ELSE ended("failed", a)

\* -------------------------------------------------- the temporary archive
with_exit_success_only(exists, raised) == IF raised THEN exists ELSE FALSE

\* Leaving the block of `with temppath() as _zip:`, by its end or by an
\* exception: the context manager removes the path if it is there.
with_exit(exists, raised) == FALSE

\* ------------------------------------------------------------------ state
VARIABLES
  args,        \* docopt's parsed arguments: command, --project, ZIP, --create
  cfg,         \* the `project` option of the configuration file, if set
  remote,      \* the projects of the Azkaban server
  pc,          \* position of the invocation
  parsed,      \* what _parse_project returned or raised
  loads,       \* the Project.load calls made, in order
  project,     \* the Project handed to build_project by _load_project
  name,        \* project name handed to the remote calls
  calls,       \* the remote calls made, in order, with their answers
  caught,      \* the AzkabanError bound by the `except` clause of the loop
  err,         \* the exception that ended the invocation
  sessions,    \* number of Session objects constructed
  tempExists,  \* the temporary archive of temppath() is on disk
  saved,       \* the archive was built at the ZIP path given to `build`
  kwargs,      \* the keyword arguments main built with _forward
  printed,     \* what the command wrote to standard output, in order
  exitCode,    \* exit status of the process, once it has ended
  escaped      \* the exception that left main uncaught, if any

vars == << args, cfg, remote, pc, parsed, loads, project, name, calls, caught, err,
           sessions, tempExists, saved, kwargs, printed, exitCode, escaped >>

Commands == { "build", "upload", "log", "info", "run", "--log" }
\* The commands whose branch of main resolves the --project reference.
ResolvingCommands == { "build", "upload", "info", "run" }
NotParsed == [ raised |-> NoError, name |-> Absent, project |-> Absent,
               call |-> [ path |-> << >>, name |-> Absent, outcome |-> "none" ] ]

\* The archive an upload sends: the ZIP argument, or the temporary path.
archive == IF args.cmd = "upload" THEN "ZIP" ELSE "temppath"

NumCalls(op) == Cardinality({ i \in 1..Len(calls) : calls[i].op = op })
Ops == [ i \in 1..Len(calls) |-> calls[i].op ]

\* What docopt returns when an option or argument is not given.
DefaultArgs ==
  [ cmd |-> "none", project |-> Absent, zip |-> FALSE, create |-> FALSE,
    replace |-> FALSE, url |-> Absent, alias |-> Some("prod"),
    execution |-> Absent, job |-> << >>, files |-> FALSE, options |-> Absent,
    include_properties |-> FALSE, workflow |-> Absent, skip |-> FALSE,
    kill |-> FALSE, emails |-> Absent ]

ProjectArgs == { Absent } \cup { Some(s) : s \in RefStrings }

\* azkaban build [-cp PROJECT] [-a ALIAS | -u URL | [-r] ZIP]
BuildArgs ==
  { [ DefaultArgs EXCEPT !.cmd = "build", !.project = p, !.zip = z,
                         !.create = c ] :
      p \in ProjectArgs, z \in BOOLEAN, c \in BOOLEAN }

\* azkaban upload [-cp PROJECT] [-a ALIAS | -u URL] ZIP
UploadArgs ==
  { [ DefaultArgs EXCEPT !.cmd = "upload", !.project = p, !.zip = TRUE,
                         !.create = c ] :
      p \in ProjectArgs, c \in BOOLEAN }

\* azkaban log [-a ALIAS | -u URL] EXECUTION [JOB]
JobNames == { "j1" }
LogArgs ==
  { [ DefaultArgs EXCEPT !.cmd = "log", !.execution = Some("42"), !.job = j ] :
      j \in { << >> } \cup { << n >> : n \in JobNames } }

\* azkaban info [-p PROJECT] [-f | -o OPTIONS | [-i] JOB ...]
ProjectJobs == { "j1" }          \* the jobs a loaded project defines
InfoArgs ==
  { [ DefaultArgs EXCEPT !.cmd = "info", !.project = p, !.files = f.files,
                         !.options = f.options, !.job = f.job,
                         !.include_properties = f.include ] :
      p \in ProjectArgs,
      f \in { [ files |-> FALSE, options |-> Absent, job |-> << >>, include |-> FALSE ],
              [ files |-> TRUE, options |-> Absent, job |-> << >>, include |-> FALSE ],
              [ files |-> FALSE, options |-> Some("type"), job |-> << >>, include |-> FALSE ] }
           \cup [ files : { FALSE }, options : { Absent },
                  job : { << "j1" >>, << "jx" >> }, include : BOOLEAN ] }

\* azkaban run [-ksp PROJECT] [-a ALIAS | -u URL] [-e EMAILS] WORKFLOW [JOB ...]
RunArgs ==
  { [ DefaultArgs EXCEPT !.cmd = "run", !.project = p, !.workflow = Some("flow"),
                         !.skip = sk, !.kill = k, !.emails = e ] :
      p \in ProjectArgs, sk \in BOOLEAN, k \in BOOLEAN,
      e \in { Absent, Some(<< "x", Comma, "y" >>) } }

\* azkaban -l | --log
ShowLogArgs == { [ DefaultArgs EXCEPT !.cmd = "--log" ] }

\* The dictionary docopt returns, keyed as _forward sees it.
docopt_args(a) ==
  (K_zip :> a.zip) @@ (K_execution :> a.execution) @@ (K_job :> a.job)
  @@ (K_workflow :> a.workflow) @@ (K_url :> a.url) @@ (K_alias :> a.alias)
  @@ (K_replace :> a.replace) @@ (K_create :> a.create)
  @@ (K_files :> a.files) @@ (K_options :> a.options)
  @@ (K_include_properties :> a.include_properties) @@ (K_skip :> a.skip)
  @@ (K_kill :> a.kill) @@ (K_emails :> a.emails) @@ (K_project :> a.project)

NoKwargs == [ q \in {} |-> FALSE ]

\* Everything but the arguments, before main has done anything.
Fresh ==
  /\ cfg \in { Absent, Some(<< "b" >>), Some(<< "a", Colon, "b" >>) }
  /\ remote \in InitialRemotes
  /\ parsed = NotParsed
  /\ loads = << >>
  /\ project = Absent
  /\ name = Absent
  /\ calls = << >>
  /\ caught = NoError
  /\ err = NoError
  /\ sessions = 0
  /\ tempExists = FALSE
  /\ saved = FALSE
  /\ kwargs = NoKwargs
  /\ printed = << >>
  /\ exitCode = Absent
  /\ escaped = NoError

Init ==
  /\ args \in BuildArgs \cup UploadArgs \cup LogArgs \cup InfoArgs \cup RunArgs
                \cup ShowLogArgs
  /\ pc = "main"
  /\ Fresh

\* The exception classes of the decorator on main: @catch(AzkabanError).
main_catches == { "AzkabanError" }

\* ---------------------------------------------------------------- actions
\* main, `elif args['build']`: _load_project(args['--project']), then
\* build_project is entered.
MainBuild ==
  /\ pc = "main"
  /\ args.cmd = "build"
  /\ \E outcome \in LoadOutcomes, declared \in DeclaredNames :
       LET r == load_project(args.project, cfg, outcome, declared)
           kw == forward(docopt_args(args), BuildNames)
       IN
       /\ parsed' = parse_project(args.project, TRUE, cfg, outcome, declared)
       /\ loads' = Append(loads, r.call)
       /\ IF r.raised /= NoError
            THEN /\ pc' = "failed"
                 /\ err' = r.raised
                 /\ UNCHANGED << project, name, kwargs >>
          ELSE IF ~call_binds(build_project_params, kw)
            THEN /\ pc' = "failed"
                 /\ err' = TypeErr
                 /\ kwargs' = kw
                 /\ UNCHANGED << project, name >>
            ELSE /\ pc' = "build"
                 /\ project' = r.project
                 /\ name' = IF r.project = Absent THEN Absent
                            ELSE Some(r.project[1].name)
                 /\ kwargs' = kw
                 /\ err' = err
  /\ UNCHANGED << args, cfg, remote, calls, caught, sessions, tempExists, saved,
                  printed, exitCode, escaped >>

\* main, `elif args['upload']`: _get_project_name(args['--project']), then
\* upload_project is entered.
MainUpload ==
  /\ pc = "main"
  /\ args.cmd = "upload"
  /\ \E outcome \in LoadOutcomes, declared \in DeclaredNames :
       LET r == get_project_name(args.project, cfg, outcome, declared)
           kw == forward(docopt_args(args), UploadNames)
       IN
       /\ parsed' = r
       /\ loads' = Append(loads, r.call)
       /\ IF r.raised /= NoError
            THEN /\ pc' = "failed"
                 /\ err' = r.raised
                 /\ UNCHANGED << name, kwargs >>
          ELSE IF ~call_binds(upload_project_params, kw)
            THEN /\ pc' = "failed"
                 /\ err' = TypeErr
                 /\ kwargs' = kw
                 /\ name' = name
            ELSE /\ pc' = "session"
                 /\ name' = r.name
                 /\ kwargs' = kw
                 /\ err' = err
  /\ UNCHANGED << args, cfg, remote, project, calls, caught, sessions,
                  tempExists, saved, printed, exitCode, escaped >>

\* build_project, `if _zip:` branch: the archive is built at the given path.
BuildLocal ==
  /\ pc = "build"
  /\ args.zip
  /\ \E ok \in BOOLEAN :
       IF ok THEN /\ saved' = TRUE
                  /\ pc' = "done"
                  /\ err' = err
             ELSE /\ saved' = saved
                  /\ pc' = "failed"
                  /\ err' = BuildErr
  /\ UNCHANGED << args, cfg, remote, parsed, loads, project, name, calls,
                  caught, sessions, tempExists, kwargs, printed, exitCode,
                  escaped >>

\* build_project, `else:` branch: `with temppath() as _zip:` and
\* project.build(_zip); an exception leaves the `with` and removes the file.
BuildTemp ==
  /\ pc = "build"
  /\ ~args.zip
  /\ \E ok \in BOOLEAN, partial \in BOOLEAN :
       IF ok THEN /\ tempExists' = TRUE
                  /\ pc' = "session"
                  /\ err' = err
             ELSE /\ tempExists' = with_exit(partial, TRUE)
                  /\ pc' = "failed"
                  /\ err' = BuildErr
  /\ UNCHANGED << args, cfg, remote, parsed, loads, project, name, calls,
                  caught, sessions, saved, kwargs, printed, exitCode, escaped >>

OpenSession_early ==
  /\ pc \in { "session", "build" }
  /\ sessions' = sessions + 1
  /\ \E ok \in BOOLEAN :
       IF ok THEN /\ pc' = "upload"
                  /\ err' = err
                  /\ tempExists' = tempExists
             ELSE /\ pc' = "failed"
                  /\ err' = SessionErr
                  /\ tempExists' = with_exit(tempExists, TRUE)
  /\ UNCHANGED << args, cfg, remote, parsed, loads, project, name, calls,
                  caught, saved, kwargs, printed, exitCode, escaped >>

\* session = Session(_url, _alias), in upload_project and build_project.
OpenSession ==
  /\ pc = "session"
  /\ sessions' = sessions + 1
  /\ \E ok \in BOOLEAN :
       IF ok THEN /\ pc' = "upload"
                  /\ err' = err
                  /\ tempExists' = tempExists
             ELSE /\ pc' = "failed"
                  /\ err' = SessionErr
                  /\ tempExists' = with_exit(tempExists, TRUE)
  /\ UNCHANGED << args, cfg, remote, parsed, loads, project, name, calls,
                  caught, saved, kwargs, printed, exitCode, escaped >>

\* One pass of `while True`: session.upload_project(...), then `else: break`
\* and the success message, or the `except AzkabanError` clause; any other
\* exception leaves the function.
UploadAttempt ==
  /\ pc = "upload"
  /\ NumCalls("upload") < MaxAttempts
  /\ \E resp \in UploadResponses(remote, name[1]) :
       /\ calls' = Append(calls, [ op |-> "upload", name |-> name[1],
                                   path |-> Some(archive),
                                   description |-> Absent, resp |-> resp ])
       /\ IF resp = NoError
            THEN /\ remote' = remote_upload(remote, name[1], archive)
                 /\ pc' = "done"
                 /\ tempExists' = with_exit(tempExists, FALSE)
                 /\ UNCHANGED << caught, err >>
          ELSE IF resp.exc = "AzkabanError"
            THEN /\ caught' = resp
                 /\ remote' = remote
                 /\ IF creates_on(args.cmd, args.create, resp)
                      THEN /\ pc' = "create"
                           /\ UNCHANGED << err, tempExists >>
                      ELSE /\ pc' = "failed"
                           /\ err' = resp
                           /\ tempExists' = with_exit(tempExists, TRUE)
          ELSE /\ pc' = "failed"
               /\ err' = resp
               /\ tempExists' = with_exit(tempExists, TRUE)
               /\ UNCHANGED << caught, remote >>
  /\ UNCHANGED << args, cfg, parsed, loads, project, name, sessions, saved,
                  kwargs, printed, exitCode, escaped >>

\* session.create_project(name, name) inside the `except` clause.
CreateCall ==
  /\ pc = "create"
  /\ \E out \in CreateOutcomes :
       /\ calls' = Append(calls, [ op |-> "create", name |-> name[1],
                                   path |-> Absent,
                                   description |-> Some(name[1]),
                                   resp |-> CreateError(out) ])
       /\ remote' = remote_create(remote, name[1], out)
       /\ pc' = after_create(out)
       /\ IF after_create(out) = "failed"
            THEN /\ err' = CreateError(out)
                 /\ tempExists' = with_exit(tempExists, TRUE)
            ELSE /\ err' = err
                 /\ tempExists' = IF after_create(out) = "done"
                                    THEN with_exit(tempExists, FALSE)
                                  ELSE tempExists
  /\ UNCHANGED << args, cfg, parsed, loads, project, name, caught, sessions,
                  saved, kwargs, printed, exitCode, escaped >>

\* main, `elif args['log']`: view_log is entered.
MainLog ==
  /\ pc = "main"
  /\ args.cmd = "log"
  /\ LET kw == forward(docopt_args(args), LogNames) IN
       /\ kwargs' = kw
       /\ IF call_binds(view_log_params, kw)
            THEN pc' = "log_session" /\ err' = err
            ELSE pc' = "failed" /\ err' = TypeErr
  /\ UNCHANGED << args, cfg, remote, parsed, loads, project, name, calls,
                  caught, sessions, tempExists, saved, printed, exitCode,
                  escaped >>

\* view_log: session = Session(_url, _alias), the Execution and its (lazy)
\* log stream.
LogSession ==
  /\ pc = "log_session"
  /\ sessions' = sessions + 1
  /\ \E ok \in BOOLEAN :
       IF ok THEN pc' = "log_fetch" /\ err' = err
             ELSE pc' = "failed" /\ err' = SessionErr
  /\ UNCHANGED << args, cfg, remote, parsed, loads, project, name, calls,
                  caught, tempExists, saved, kwargs, printed, exitCode,
                  escaped >>

\* view_log: one step of `for line in logs:` inside the try block.
LogFetch ==
  /\ pc = "log_fetch"
  /\ \E resp \in LogResponses :
       /\ resp = LogLine => Len(printed) < MaxLogLines
       /\ calls' = Append(calls, [ op |-> "fetch_logs",
                                   execution |-> kwargs[P_execution][1],
                                   job |-> kwargs[P_job],
                                   resp |-> resp ])
       /\ IF resp = LogLine
            THEN /\ printed' = Append(printed, "line")
                 /\ UNCHANGED << pc, err >>
          ELSE IF resp = LogEnd
            THEN /\ pc' = "done"
                 /\ UNCHANGED << printed, err >>
          ELSE /\ pc' = "failed"
               /\ err' = log_error(resp, kwargs[P_execution][1], kwargs[P_job])
               /\ printed' = printed
  /\ UNCHANGED << args, cfg, remote, parsed, loads, project, name, caught,
                  sessions, tempExists, saved, kwargs, exitCode, escaped >>

\* main, `elif args['info']`: _load_project(args['--project']), then
\* view_info is entered.
MainInfo ==
  /\ pc = "main"
  /\ args.cmd = "info"
  /\ \E outcome \in LoadOutcomes, declared \in DeclaredNames :
       LET r == load_project(args.project, cfg, outcome, declared)
           kw == forward(docopt_args(args), InfoNames)
       IN
       /\ parsed' = parse_project(args.project, TRUE, cfg, outcome, declared)
       /\ loads' = Append(loads, r.call)
       /\ IF r.raised /= NoError
            THEN /\ pc' = "failed"
                 /\ err' = r.raised
                 /\ UNCHANGED << project, kwargs >>
          ELSE IF ~call_binds(view_info_params, kw)
            THEN /\ pc' = "failed"
                 /\ err' = TypeErr
                 /\ kwargs' = kw
                 /\ project' = project
            ELSE /\ pc' = "info"
                 /\ project' = r.project
                 /\ kwargs' = kw
                 /\ err' = err
  /\ UNCHANGED << args, cfg, remote, name, calls, caught, sessions, tempExists,
                  saved, printed, exitCode, escaped >>

ViewInfo_session ==
  /\ pc = "info"
  /\ sessions' = sessions + 1
  /\ pc' = "done"
  /\ printed' = << "jobs" >>
  /\ UNCHANGED << args, cfg, remote, parsed, loads, project, name, calls,
                  caught, err, tempExists, saved, kwargs, exitCode, escaped >>

\* view_info: writes the options of the named jobs (after the project
\* properties with -i), or the files, or the table of job options, or the
\* job names; project.jobs[name] of an unknown name raises KeyError.
ViewInfo ==
  /\ pc = "info"
  /\ IF kwargs[P_job] /= << >>
       THEN LET head == IF kwargs[P_include_properties]
                          THEN << "project.properties" >> ELSE << >>
            IN IF \A i \in 1..Len(kwargs[P_job]) : kwargs[P_job][i] \in ProjectJobs
                 THEN /\ printed' = head \o kwargs[P_job]
                      /\ pc' = "done"
                      /\ err' = err
                 ELSE /\ printed' = head
                      /\ pc' = "failed"
                      /\ err' = KeyErr
     ELSE /\ pc' = "done"
          /\ err' = err
          /\ printed' = IF kwargs[P_files] THEN << "files" >>
                        ELSE IF kwargs[P_options] /= Absent THEN << "options" >>
                        ELSE << "jobs" >>
  /\ UNCHANGED << args, cfg, remote, parsed, loads, project, name, calls,
                  caught, sessions, tempExists, saved, kwargs, exitCode,
                  escaped >>

\* main, `elif args['run']`: _get_project_name(args['--project']), then the
\* call of run_flow with the forwarded arguments.
MainRun ==
  /\ pc = "main"
  /\ args.cmd = "run"
  /\ \E outcome \in LoadOutcomes, declared \in DeclaredNames :
       LET r == get_project_name(args.project, cfg, outcome, declared)
           kw == forward(docopt_args(args), RunNames)
       IN
       /\ parsed' = r
       /\ loads' = Append(loads, r.call)
       /\ IF r.raised /= NoError
            THEN /\ pc' = "failed"
                 /\ err' = r.raised
                 /\ UNCHANGED << name, kwargs >>
          ELSE IF ~call_binds(run_flow_params, kw)
            THEN /\ pc' = "failed"
                 /\ err' = TypeErr
                 /\ kwargs' = kw
                 /\ name' = name
            ELSE /\ pc' = "run_session"
                 /\ name' = r.name
                 /\ kwargs' = kw
                 /\ err' = err
  /\ UNCHANGED << args, cfg, remote, project, calls, caught, sessions,
                  tempExists, saved, printed, exitCode, escaped >>

\* run_flow: session = Session(_url, _alias)
RunSession ==
  /\ pc = "run_session"
  /\ sessions' = sessions + 1
  /\ \E ok \in BOOLEAN :
       IF ok THEN pc' = "run_workflow" /\ err' = err
             ELSE pc' = "failed" /\ err' = SessionErr
  /\ UNCHANGED << args, cfg, remote, parsed, loads, project, name, calls,
                  caught, tempExists, saved, kwargs, printed, exitCode,
                  escaped >>

\* run_flow: session.run_workflow(...) and the message with the execution id.
RunWorkflow ==
  /\ pc = "run_workflow"
  /\ \E resp \in RunResponses :
       /\ calls' = Append(calls,
            [ op |-> "run_workflow",
              name |-> name[1],
              flow |-> kwargs[P_workflow],
              jobs |-> kwargs[P_job],
              concurrent |-> run_concurrent(kwargs[P_skip]),
              on_failure |-> run_on_failure(kwargs[P_kill]),
              emails |-> run_emails(kwargs[P_emails]),
              resp |-> resp ])
       /\ IF resp = NoError
            THEN /\ pc' = "done"
                 /\ printed' = << "submitted" >>
                 /\ err' = err
            ELSE /\ pc' = "failed"
                 /\ printed' = printed
                 /\ err' = resp
  /\ UNCHANGED << args, cfg, remote, parsed, loads, project, name, caught,
                  sessions, tempExists, saved, kwargs, exitCode, escaped >>

\* main, `if args['--log']`: the path of the log file, or AzkabanError when
\* no file handler is active.
MainShowLog ==
  /\ pc = "main"
  /\ args.cmd = "--log"
  /\ \E handler \in BOOLEAN :
       IF handler THEN /\ printed' = << "baseFilename" >>
                       /\ pc' = "done"
                       /\ err' = err
                  ELSE /\ printed' = printed
                       /\ pc' = "failed"
                       /\ err' = NoLogFileErr
  /\ UNCHANGED << args, cfg, remote, parsed, loads, project, name, calls,
                  caught, sessions, tempExists, saved, kwargs, exitCode,
                  escaped >>

\* The end of main under @catch(AzkabanError): a normal return ends the
\* process with status 0; an exception of a caught class is reported in one
\* line with status 1; any other exception leaves main and the interpreter
\* prints its traceback and ends with status 1.
Exit ==
  /\ pc \in { "done", "failed" }
  /\ exitCode = Absent
  /\ IF pc = "done"
       THEN exitCode' = Some(0) /\ escaped' = NoError
     ELSE IF err.exc \in main_catches
       THEN exitCode' = Some(1) /\ escaped' = NoError
     ELSE exitCode' = Some(1) /\ escaped' = err
  /\ UNCHANGED << args, cfg, remote, pc, parsed, loads, project, name, calls,
                  caught, err, sessions, tempExists, saved, kwargs, printed >>

Next ==
  \/ MainBuild
  \/ MainUpload
  \/ BuildLocal
  \/ BuildTemp
  \/ OpenSession
  \/ UploadAttempt
  \/ CreateCall
  \/ MainLog
  \/ LogSession
  \/ LogFetch
  \/ MainInfo
  \/ ViewInfo
  \/ MainRun
  \/ MainShowLog
  \/ Exit

Spec == Init /\ [][Next]_vars

\* run_flow called with every combination of arguments (main's own call of
\* run_flow never binds, see MainRun).
RunFlowArgs ==
  { (P_workflow :> Some("flow")) @@ (P_job :> j) @@ (P_url :> Absent)
    @@ (P_alias :> Some("prod")) @@ (P_skip :> sk) @@ (P_kill :> k)
    @@ (P_emails :> e) :
      j \in { << >>, << "j1" >> }, sk \in BOOLEAN, k \in BOOLEAN,
      e \in { Absent } \cup { Some(x) : x \in EmailStrings } }

InitRun ==
  /\ args = DefaultArgs
  /\ pc = "run_session"
  /\ cfg = Absent
  /\ remote \in InitialRemotes
  /\ parsed = NotParsed
  /\ loads = << >>
  /\ project = Absent
  /\ name \in { Some(n) : n \in PreExisting }
  /\ calls = << >>
  /\ caught = NoError
  /\ err = NoError
  /\ sessions = 0
  /\ tempExists = FALSE
  /\ saved = FALSE
  /\ kwargs \in RunFlowArgs
  /\ printed = << >>
  /\ exitCode = Absent
  /\ escaped = NoError

NextRun ==
  \/ RunSession
  \/ RunWorkflow

SpecRun == InitRun /\ [][NextRun]_vars

\* ----------------------------------------------------------------- claims
Finished == pc \in { "done", "failed" }
\* The invocations that run an upload loop: upload, and build without ZIP.
UploadOperation == args.cmd = "upload" \/ (args.cmd = "build" /\ ~args.zip)
IsPrefix(s, t) == Len(s) <= Len(t) /\ \A i \in 1..Len(s) : s[i] = t[i]

\* C1: with create_if_missing an upload operation makes at most two upload
\* attempts and at most one create-project call, whatever the remote answers.
C1_BoundedRetry ==
  args.create => NumCalls("upload") <= 2 /\ NumCalls("create") <= 1

\* C2: when the create-project call succeeded and the retried upload is again
\* refused with "doesn't exist.", the operation has ended with an error
\* instead of going on to another create call.
C2_RetryExhaustedFails ==
  \A i \in 2..Len(calls) :
    ( /\ args.create
      /\ i = Len(calls)
      /\ calls[i].op = "upload" /\ calls[i].resp = MissingErr
      /\ calls[i-1].op = "create" /\ calls[i-1].resp = NoError )
    => pc = "failed" /\ err.exc = "AzkabanError"

\* C3: when the first upload is refused with "doesn't exist." and every later
\* call is accepted, the calls made are upload, create, upload in that order
\* and the operation ends in success.
C3_MissingThenCreated ==
  ( /\ args.create
    /\ Len(calls) >= 1
    /\ calls[1].resp = MissingErr
    /\ \A i \in 2..Len(calls) : calls[i].resp = NoError )
  => /\ IsPrefix(Ops, << "upload", "create", "upload" >>)
     /\ Len(calls) = 3 => pc = "done"
     /\ Finished => pc = "done" /\ Ops = << "upload", "create", "upload" >>

C3_Witness ==
  /\ pc = "done"
  /\ args.create
  /\ Ops = << "upload", "create", "upload" >>
  /\ calls[1].resp = MissingErr
  /\ calls[2].resp = NoError
  /\ calls[3].resp = NoError

\* C4: without create_if_missing, an upload refused with "doesn't exist."
\* ends the operation with that very error after one upload attempt and no
\* create-project call.
C4_NoCreateFlag ==
  ( /\ ~args.create
    /\ \E i \in 1..Len(calls) : calls[i].resp = MissingErr )
  => /\ pc = "failed"
     /\ err = MissingErr
     /\ Ops = << "upload" >>

C4_Witness ==
  /\ ~args.create
  /\ Len(calls) = 1
  /\ calls[1].resp = MissingErr
  /\ pc = "failed"

\* C5: an upload attempt that fails for a reason other than "doesn't exist."
\* is the last remote call of the operation, which ends with that failure,
\* whatever create_if_missing is.
C5_OtherFailureImmediate ==
  \A i \in 1..Len(calls) :
    ( calls[i].op = "upload" /\ calls[i].resp \notin { NoError, MissingErr } )
    => i = Len(calls) /\ pc = "failed" /\ err = calls[i].resp

\* C6: a create-project call that fails is the last remote call of the
\* operation, which ends with an error.
C6_CreateFailureFatal ==
  \A i \in 1..Len(calls) :
    ( calls[i].op = "create" /\ calls[i].resp /= NoError )
    => i = Len(calls) /\ pc = "failed" /\ err /= NoError

C6_Witness ==
  /\ Len(calls) >= 2
  /\ calls[Len(calls)].op = "create"
  /\ calls[Len(calls)].resp /= NoError
  /\ pc = "failed"

\* C7: when an upload operation has returned successfully, the remote holds
\* the named project and the archive passed is its newest version.
C7_SuccessMeansNewest ==
  ( pc = "done" /\ UploadOperation )
  => name[1] \in DOMAIN remote /\ remote[name[1]] = archive

C7_Witness ==
  /\ pc = "done"
  /\ NumCalls("create") = 1
  /\ NumCalls("upload") = 2
  /\ name[1] \in DOMAIN remote
  /\ remote[name[1]] = archive

\* C8: a reference with a colon is split at its rightmost colon: the one
\* Project.load call gets the part before it as path and the part after it,
\* which holds no colon, as name, and that name is the name returned.
C8_RightmostColon ==
  ( pc /= "main" /\ args.cmd \in ResolvingCommands
    /\ Colon \in Range(effective_reference(args.project, cfg)) )
  => /\ Len(loads) = 1
     /\ loads[1].name /= Absent
     /\ loads[1].path \o << Colon >> \o loads[1].name[1]
          = effective_reference(args.project, cfg)
     /\ Colon \notin Range(loads[1].name[1])
     /\ parsed.raised = NoError
          => /\ parsed.name = loads[1].name
             /\ parsed.project /= Absent
             /\ parsed.project[1].name = loads[1].name[1]
             /\ parsed.project[1].path = loads[1].path

C8_Witness ==
  /\ pc /= "main"
  /\ Truthy(args.project)
  /\ Cardinality({ i \in 1..Len(args.project[1]) : args.project[1][i] = Colon }) >= 2
  /\ parsed.raised = NoError
  /\ parsed.name = loads[1].name

\* C9: every successful return of _parse_project carries a name; and for a
\* reference without colon that cannot be imported, require_project=False
\* (the upload command) returns (reference, None) without raising.
C9_NameNeverAbsent ==
  ( pc /= "main" /\ args.cmd \in ResolvingCommands )
  => /\ parsed.raised = NoError => parsed.name /= Absent
     /\ ( /\ args.cmd = "upload"
          /\ Colon \notin Range(effective_reference(args.project, cfg))
          /\ loads[1].outcome = "ImportError" )
        => /\ parsed.raised = NoError
           /\ parsed.name = Some(effective_reference(args.project, cfg))
           /\ parsed.project = Absent

C9_Witness ==
  /\ pc /= "main"
  /\ args.cmd = "upload"
  /\ args.project = Absent
  /\ cfg = Absent
  /\ loads[1].outcome = "ImportError"
  /\ parsed.raised = NoError
  /\ parsed.name = Some(Jobs)

\* C10: for the build and info commands (require_project=True) a reference
\* without colon that cannot be imported ends the invocation with the AzkabanError
\* that points at the --project option, and build_project is never entered
\* with an absent project.
C10_RequiredProject ==
  ( pc /= "main" /\ args.cmd \in { "build", "info" } )
  => /\ ( /\ Colon \notin Range(effective_reference(args.project, cfg))
          /\ loads[1].outcome = "ImportError" )
        => /\ pc = "failed"
           /\ err = GuidanceErr
           /\ project = Absent
     /\ pc /= "failed" => project /= Absent
     /\ loads[1].outcome /= "ok" => pc = "failed"

C10_Witness ==
  /\ args.cmd = "build"
  /\ pc = "failed"
  /\ Colon \notin Range(effective_reference(args.project, cfg))
  /\ loads[1].outcome = "ImportError"
  /\ err = GuidanceErr

\* C14: when build-and-upload (build without ZIP) has ended, in success, in
\* a failed upload or create, or in an exception of the local build, the
\* temporary archive is not on disk.
C14_TempRemoved ==
  ( args.cmd = "build" /\ ~args.zip /\ Finished ) => ~tempExists

C14_Witness ==
  /\ args.cmd = "build"
  /\ ~args.zip
  /\ pc = "failed"
  /\ Len(calls) >= 1
  /\ calls[Len(calls)].resp /= NoError
  /\ ~tempExists

\* C11: when a log fetch is answered with the status-500 HTTPError, view_log
\* ends with an AzkabanError "not found" that names the execution id and, for
\* a job-scoped fetch, the job; for an execution-scoped fetch it names the
\* execution id only.
C11_NotFoundOn500 ==
  ( /\ args.cmd = "log"
    /\ Len(calls) >= 1
    /\ calls[Len(calls)].resp = Http500 )
  => /\ pc = "failed"
     /\ err.exc = "AzkabanError"
     /\ endswith(err.msg, "not found.")
     /\ args.execution[1] \in Range(err.msg)
     /\ args.job /= << >> => args.job[1] \in Range(err.msg)
     /\ args.job = << >> => err.msg = << "Execution", args.execution[1], "not found." >>

C11_Witness ==
  /\ args.cmd = "log"
  /\ args.job /= << >>
  /\ Len(calls) >= 2
  /\ calls[Len(calls)].resp = Http500
  /\ pc = "failed"
  /\ args.job[1] \in Range(err.msg)

\* C16: a log fetch answered with an HTTPError of a status other than 500 is
\* not reported as "not found": view_log ends with that transport error.
C16_OnlyStatus500 ==
  ( /\ args.cmd = "log"
    /\ Len(calls) >= 1
    /\ calls[Len(calls)].resp.exc = "HTTPError"
    /\ calls[Len(calls)].resp /= Http500 )
  => /\ pc = "failed"
     /\ err = calls[Len(calls)].resp

\* C15: no step of an info invocation constructs a Session, makes a remote
\* call, or changes the remote, the configuration or (once view_info has it)
\* the project.
C15_InfoFrame ==
  [][ args.cmd = "info"
      => /\ UNCHANGED << sessions, calls, remote, cfg >>
         /\ sessions = 0 /\ calls = << >>
         /\ pc = "info" => project' = project ]_vars

C15_Witness ==
  /\ args.cmd = "info"
  /\ pc = "done"
  /\ printed /= << >>
  /\ sessions = 0

RECURSIVE JoinComma(_)
JoinComma(parts) ==
  IF Len(parts) = 1 THEN parts[1]
  ELSE parts[1] \o << Comma >> \o JoinComma(Tail(parts))

\* C12: run_flow makes one run_workflow call, with failure policy "cancel"
\* for kill and "finish" otherwise, concurrent exactly when skip is not set,
\* no recipients for absent or empty emails and otherwise the comma-separated
\* parts of emails in order; nothing follows the call.
C12_RunMapping ==
  /\ Len(calls) <= 1
  /\ pc = "done" => Len(calls) = 1
  /\ \A i \in 1..Len(calls) :
       LET c == calls[i] e == kwargs[P_emails] IN
       /\ c.op = "run_workflow"
       /\ Finished
       /\ c.on_failure = (IF kwargs[P_kill] THEN "cancel" ELSE "finish")
       /\ c.concurrent = ~kwargs[P_skip]
       /\ c.flow = kwargs[P_workflow] /\ c.jobs = kwargs[P_job]
       /\ c.name = name[1]
       /\ IF e = Absent \/ e = Some(<< >>)
            THEN c.emails = Absent
            ELSE /\ c.emails /= Absent
                 /\ Len(c.emails[1]) >= 1
                 /\ \A j \in 1..Len(c.emails[1]) : Comma \notin Range(c.emails[1][j])
                 /\ JoinComma(c.emails[1]) = e[1]

C12_Witness ==
  /\ pc = "done"
  /\ kwargs[P_kill]
  /\ kwargs[P_emails] = Some(<< "x", Comma, "y" >>)
  /\ Len(calls) = 1
  /\ calls[1].emails = Some(<< << "x" >>, << "y" >> >>)
  /\ calls[1].on_failure = "cancel"

\* C18: for a run invocation whose project name resolved, the keyword
\* arguments main forwards cover every parameter of run_flow, and the emails
\* argument is the value of --emails.
C18_RunForwardsEmails ==
  ( args.cmd = "run" /\ pc /= "main" /\ parsed.raised = NoError )
  => /\ run_flow_params \subseteq DOMAIN kwargs
     /\ kwargs[P_emails] = args.emails
     /\ err /= TypeErr

Answers == [ i \in 1..Len(calls) |-> calls[i].resp ]
Outcome == IF Finished THEN pc ELSE "running"
OtherUpload == IF args.cmd = "upload" THEN "build" ELSE "upload"

\* The loop as a function agrees with the loop as it runs.
UploadLoopFaithful ==
  ( UploadOperation /\ Len(calls) >= 1 )
  => upload_loop(args.cmd, args.create, Answers, "upload")
       = [ ops |-> Ops, outcome |-> Outcome, err |-> err ]

\* C13: the process ends with status 0 when the command succeeded and with
\* status 1 when it failed, and a failure with a domain error (AzkabanError
\* or the transport's HTTPError) is caught by main: none leaves it uncaught.
C13_ErrorsCaught ==
  exitCode /= Absent
  => /\ pc = "done" => exitCode = Some(0)
     /\ pc = "failed" => exitCode = Some(1)
     /\ ( pc = "failed" /\ err.exc \in { "AzkabanError", "HTTPError" } )
          => escaped = NoError

\* C17: the upload loop of the other command, given the same create flag and
\* the same answers, makes the calls this invocation made and ends as it did.
C17_SameProtocol ==
  ( UploadOperation /\ Len(calls) >= 1 )
  => upload_loop(OtherUpload, args.create, Answers, "upload")
       = [ ops |-> Ops, outcome |-> Outcome, err |-> err ]

\* C19: a Session is constructed only after the project reference resolved
\* (in the commands that resolve one) and, for build, after the archive was
\* built; remote calls come only after a Session; a failure of resolution or
\* of the local build leaves zero Sessions and zero remote calls; build with
\* a ZIP path constructs no Session.
C19_StepOrder ==
  [][ /\ sessions' > sessions
           => /\ args.cmd \in ResolvingCommands
                   => Len(loads) = 1 /\ parsed.raised = NoError
              /\ args.cmd = "build" => tempExists /\ ~args.zip
      /\ Len(calls') > Len(calls) => sessions >= 1
      /\ ( pc \in { "main", "build" } /\ pc' = "failed" )
           => sessions' = 0 /\ calls' = << >>
      /\ ( args.cmd = "build" /\ args.zip ) => sessions' = 0 ]_vars

C19_Witness ==
  /\ args.cmd = "build"
  /\ ~args.zip
  /\ Len(loads) = 1
  /\ sessions = 1
  /\ Len(calls) >= 1
  /\ pc = "done"
====
